---- MODULE Spec2Model ----
(***************************************************************************)
(* A model of st3v/glager: the log-sequence matcher (both the current      *)
(* implementation, src/unnamed/part_002, and the earlier glager.go), the   *)
(* expectation builder, and the lager logger (src/unnamed/part_000) whose  *)
(* records the matcher consumes.                                           *)
(***************************************************************************)
EXTENDS Integers, Sequences, FiniteSets, TLC

\* ------------------------------------------------------------------ bounds
MaxContents == 2      \* items written to the actual source
MaxArgs == 1          \* expectations handed to ContainSequence
MaxExpected == 2      \* expectations matched against a logged buffer
MaxLoggers == 4       \* loggers two goroutines derive: the root and three more
MaxDerived == 2       \* loggers that log: the root and one derived from it
MaxSinks == 1         \* sinks registered on the loggers that log
MaxLogs == 1          \* logging calls in all
MaxFamily == 2        \* loggers sharing a sinks slice: a parent and a child
MaxShared == 5        \* sinks registered on the loggers sharing a slice

\* ------------------------------------------------------- lager log levels
DEBUG == 0
INFO == 1
ERROR == 2
FATAL == 3

\* --------------------------------------------------------------- Go values
\* interface{} values held in lager.Data: a dynamic type and a payload.
GoString(s) == [type |-> "string", s |-> s, n |-> 0]
GoInt(n) == [type |-> "int", s |-> "", n |-> n]
GoFloat64(n) == [type |-> "float64", s |-> "", n |-> n]
GoChan == [type |-> "chan", s |-> "", n |-> 0]

Digits == <<"0", "1", "2", "3", "4", "5", "6", "7", "8", "9">>

\* json.Marshal of one data value: strings are quoted, numbers are printed
\* bare (int 1 and float64 1 both give 1), a channel cannot be serialized.
Marshal(v) ==
    IF v.type = "chan" THEN [err |-> "marshal", json |-> ""]
    ELSE IF v.type = "string" THEN [err |-> "nil", json |-> "\"" \o v.s \o "\""]
    ELSE [err |-> "nil", json |-> Digits[v.n + 1]]

\* The values json.Unmarshal produces for an interface{} target: a JSON
\* string becomes a Go string, a JSON number a float64.
DecodedStrings == {"", "starting", "failed", "boom", "1"}
DecodedNumbers == {1, 2}
DecodedValues ==
    {GoString(s) : s \in DecodedStrings} \cup {GoFloat64(n) : n \in DecodedNumbers}

Unmarshal(json) == CHOOSE v \in DecodedValues : Marshal(v).json = json

\* ------------------------------------------------------------- log entries
\* lager.LogFormat as the matcher sees it; data maps keys to Go values.
NoData == [k \in {} |-> GoString("")]

LogFormat(ts, src, msg, lvl, data) ==
    [timestamp |-> ts, source |-> src, message |-> msg, log_level |-> lvl,
     data |-> data]

\* One item of the actual source: a serialized record (data values are JSON
\* texts) or a structurally malformed one.
WireRecord(ts, src, msg, lvl, data) ==
    [ok |-> TRUE, timestamp |-> ts, source |-> src, message |-> msg,
     log_level |-> lvl, data |-> data]
Malformed ==
    [ok |-> FALSE, timestamp |-> "", source |-> "", message |-> "",
     log_level |-> 0, data |-> [k \in {} |-> ""]]

\* decoder.Decode(&entry) on a well-formed item.
Decode(w) ==
    LogFormat(w.timestamp, w.source, w.message, w.log_level,
              [k \in DOMAIN w.data |-> Unmarshal(w.data[k])])

\* ------------------------------------------------------------------ errors
NilError == [nil |-> TRUE, msg |-> ""]
NewError(msg) == [nil |-> FALSE, msg |-> msg]

\* ------------------------------------------------------- expectation builder
\* An option is a closure over a logEntry; it is kept as data and run by
\* ApplyOption.
Message(msg) == [opt |-> "Message", str |-> msg, kv |-> <<>>]
Action(action) == Message(action)
Source(src) == [opt |-> "Source", str |-> src, kv |-> <<>>]

\* Data(kv ...interface{}): an odd argument list is padded with "".
Data(kv) ==
    [opt |-> "Data", str |-> "",
     kv |-> IF Len(kv) % 2 = 1 THEN Append(kv, GoString("")) ELSE kv]

\* glager.go's Data(kv ...string): every argument is a string.
DataGlager(kv) == Data([i \in 1..Len(kv) |-> GoString(kv[i])])

\* The loop of Data's closure: a key that is no string panics.
DataLoopFirstWins(kv, i, data) ==
    [panic |-> \E j \in 1..Len(kv) : j % 2 = 1 /\ kv[j].type # "string",
     data |-> [k \in DOMAIN data \cup {kv[j].s : j \in {n \in 1..Len(kv) : n % 2 = 1}} |->
                 IF k \in DOMAIN data THEN data[k]
                 ELSE kv[(CHOOSE j \in 1..Len(kv) : j % 2 = 1 /\ kv[j].s = k) + 1]]]

RECURSIVE DataLoop(_, _, _)
DataLoop(kv, i, data) ==
    IF i > Len(kv) THEN [panic |-> FALSE, data |-> data]
    ELSE IF kv[i].type # "string" \/ i + 1 > Len(kv)
         THEN [panic |-> TRUE, data |-> data]
    ELSE DataLoop(kv, i + 2,
                  [k \in DOMAIN data \cup {kv[i].s} |->
                      IF k = kv[i].s THEN kv[i + 1] ELSE data[k]])

\* option(&entry)
ApplyOption(o, e) ==
    IF o.opt = "Message" THEN [panic |-> FALSE, entry |-> [e EXCEPT !.message = o.str]]
    ELSE IF o.opt = "Source" THEN [panic |-> FALSE, entry |-> [e EXCEPT !.source = o.str]]
    ELSE LET r == DataLoop(o.kv, 1, e.data)
         IN [panic |-> r.panic, entry |-> [e EXCEPT !.data = r.data]]

RECURSIVE EntryLoop(_, _, _)
EntryLoop(options, i, entry) ==
    IF i > Len(options) THEN [panic |-> FALSE, entry |-> entry]
    ELSE LET r == ApplyOption(options[i], entry)
         IN IF r.panic THEN r ELSE EntryLoop(options, i + 1, r.entry)

\* Entry(logLevel, options...): seed with the level and empty data, then
\* apply the options in order.
Entry(logLevel, options) ==
    EntryLoop(options, 1, LogFormat("", "", "", logLevel, NoData))

Info(options) == Entry(INFO, options)
Debug(options) == Entry(DEBUG, options)

\* part_002: Error(err, options...) injects the error constraint only for
\* a non-nil err.
Error(err, options) ==
    IF ~err.nil
    THEN Entry(ERROR, Append(options, Data(<<GoString("error"), GoString(err.msg)>>)))
    ELSE Entry(ERROR, options)

Fatal(err, options) ==
    IF ~err.nil
    THEN Entry(FATAL, Append(options, Data(<<GoString("error"), GoString(err.msg)>>)))
    ELSE Entry(FATAL, options)

\* glager.go: err.Error() is called unconditionally, so a nil err is a nil
\* dereference before Entry is reached.
ErrorGlager(err, options) ==
    IF err.nil THEN [panic |-> TRUE, entry |-> LogFormat("", "", "", ERROR, NoData)]
    ELSE Entry(ERROR, Append(options, DataGlager(<<"error", err.msg>>)))

FatalGlager(options) == Entry(FATAL, options)

\* ----------------------------------------------------- containment, part_002
\* One iteration of logEntryData.contains for key k: "false" and "err"
\* return from the loop, "next" goes on to the next key.
KeyOutcome(actual, expected, k) ==
    IF k \notin DOMAIN actual THEN "false"
    ELSE IF Marshal(expected[k]).err # "nil" THEN "err"
    ELSE IF Marshal(actual[k]).json # Marshal(expected[k]).json THEN "false"
    ELSE "next"

\* logEntryData.contains: the map is ranged over in an unspecified order, so
\* with several returning keys any of their returns can be the result.
logEntryData_contains(actual, expected) ==
    LET outs == {KeyOutcome(actual, expected, k) : k \in DOMAIN expected}
    IN  {[ok |-> FALSE, err |-> "nil"] : o \in outs \cap {"false"}}
        \cup {[ok |-> FALSE, err |-> "marshal"] : o \in outs \cap {"err"}}
        \cup (IF outs \subseteq {"next"} THEN {[ok |-> TRUE, err |-> "nil"]} ELSE {})

containsIgnoresLevel(actual, expected) ==
    IF expected.source # "" /\ actual.source # expected.source
    THEN {[ok |-> FALSE, err |-> "nil"]}
    ELSE IF expected.message # "" /\ actual.message # expected.message
    THEN {[ok |-> FALSE, err |-> "nil"]}
    ELSE logEntryData_contains(actual.data, expected.data)

\* logEntry.contains
logEntry_contains(actual, expected) ==
    IF expected.source # "" /\ actual.source # expected.source
    THEN {[ok |-> FALSE, err |-> "nil"]}
    ELSE IF expected.message # "" /\ actual.message # expected.message
    THEN {[ok |-> FALSE, err |-> "nil"]}
    ELSE IF actual.log_level # expected.log_level
    THEN {[ok |-> FALSE, err |-> "nil"]}
    ELSE logEntryData_contains(actual.data, expected.data)

\* logEntries.indexOf, scanning from position i (1-based); i is 0 when
\* nothing is found.
RECURSIVE indexOfFrom(_, _, _)
indexOfFrom(entries, entry, i) ==
    IF i > Len(entries) THEN {[i |-> 0, found |-> FALSE, err |-> "nil"]}
    ELSE UNION {
        IF c.err # "nil" THEN {[i |-> 0, found |-> FALSE, err |-> c.err]}
        ELSE IF c.ok THEN {[i |-> i, found |-> TRUE, err |-> "nil"]}
        ELSE indexOfFrom(entries, entry, i + 1)
        : c \in logEntry_contains(entries[i], entry)}

logEntries_indexOf(entries, entry) == indexOfFrom(entries, entry, 1)

\* ---------------------------------------------------- containment, glager.go
\* LogEntryData.contains: values are compared as interface values.
LogEntryData_contains(actual, expected) ==
    \A k \in DOMAIN expected : k \in DOMAIN actual /\ expected[k] = actual[k]

\* LogEntry.contains: also compares a timestamp the expectation sets.
LogEntry_contains(actual, expected) ==
    /\ ~(expected.source # "" /\ actual.source # expected.source)
    /\ ~(expected.message # "" /\ actual.message # expected.message)
    /\ actual.log_level = expected.log_level
    /\ ~(expected.timestamp # "" /\ actual.timestamp # expected.timestamp)
    /\ LogEntryData_contains(actual.data, expected.data)

\* LogEntries.indexOf
LogEntries_indexOf(entries, entry) ==
    IF \E i \in 1..Len(entries) : LogEntry_contains(entries[i], entry)
    THEN [i |-> CHOOSE i \in 1..Len(entries) :
                    /\ LogEntry_contains(entries[i], entry)
                    /\ \A j \in 1..(i - 1) : ~LogEntry_contains(entries[j], entry),
          found |-> TRUE]
    ELSE [i |-> 0, found |-> FALSE]

\* ------------------------------------------------------------------- state
VARIABLES
    actual,     \* the value handed to Match: its interfaces, retained contents
                \* and read position
    built,      \* the builder calls last evaluated for ContainSequence, and
                \* whether one of them panicked
    lm,         \* the logMatcher: implementing file, expected, actual
    success,    \* the last Match's first result
    err,        \* the last Match's second result
    matched,    \* whether lm has been matched since it was made and the
                \* contents last changed
    prev        \* the first result of the Match before the last one, over
                \* the same matcher and contents: "true", "false" or "none"

matcherVars == <<actual, built, lm, success, err, matched, prev>>

VARIABLES
    loggers,        \* the logger objects, in order of construction
    arrays,         \* the backing arrays of the loggers' sinks slices
    sinkRecords,    \* per sink, the records its Log has been handed
    registrations,  \* per sink, the logger RegisterSink was called on
    writerSinks,    \* per sink, its minimum level and the records it wrote
    threads,        \* per goroutine, its position in a Session call
    outcome         \* the last logging call: on which logger, whether it
                    \* returned, and how many calls there were

loggerVars ==
    <<loggers, arrays, sinkRecords, registrations, writerSinks, threads, outcome>>

vars == <<matcherVars, loggerVars>>

\* ---------------------------------------------------------- decoding loop
FirstMalformed(items) ==
    IF \E i \in 1..Len(items) : ~items[i].ok
    THEN CHOOSE i \in 1..Len(items) :
            ~items[i].ok /\ \A j \in 1..(i - 1) : items[j].ok
    ELSE 0

DecodeLoopFailsAtEOF(items) ==
    [err |-> "decode",
     entries |-> [i \in 1..(IF FirstMalformed(items) = 0 THEN Len(items)
                            ELSE FirstMalformed(items) - 1) |-> Decode(items[i])],
     read |-> IF FirstMalformed(items) = 0 THEN Len(items) ELSE FirstMalformed(items)]

DecodeLoopSkipsMalformed(items) ==
    LET good == SelectSeq(items, LAMBDA w : w.ok)
    IN [err |-> "nil", entries |-> [i \in 1..Len(good) |-> Decode(good[i])],
        read |-> Len(items)]

\* for { decoder.Decode(&entry) ... }: entries are appended until end of
\* input or the first item that does not decode; read is the number of items
\* the loop has consumed.
DecodeLoop(items) ==
    LET b == FirstMalformed(items)
    IN IF b = 0
       THEN [err |-> "nil", entries |-> [i \in 1..Len(items) |-> Decode(items[i])],
             read |-> Len(items)]
       ELSE [err |-> "decode", entries |-> [i \in 1..(b - 1) |-> Decode(items[i])],
             read |-> b]

Unread(x) == SubSeq(x.contents, x.pos + 1, Len(x.contents))

\* ----------------------------------------------------------- Match, part_002
ScanLoopReusesEntry(actualEntries, expected, k) ==
    IF \A j \in k..Len(expected) :
          \E r \in logEntries_indexOf(actualEntries, expected[j]) : r.found
    THEN {[success |-> TRUE, err |-> "nil"]}
    ELSE {[success |-> FALSE, err |-> "nil"]}

\* for _, expected := range lm.expected { ... }: the cursor scan, from
\* expectation k on, over the entries left of the cursor.
RECURSIVE ScanLoop(_, _, _)
ScanLoop(actualEntries, expected, k) ==
    IF k > Len(expected) THEN {[success |-> TRUE, err |-> "nil"]}
    ELSE UNION {
        IF r.err # "nil" THEN {[success |-> FALSE, err |-> r.err]}
        ELSE IF ~r.found THEN {[success |-> FALSE, err |-> "nil"]}
        ELSE ScanLoop(SubSeq(actualEntries, r.i + 1, Len(actualEntries)),
                      expected, k + 1)
        : r \in logEntries_indexOf(actualEntries, expected[k])}

ReadsContentsAlways(x) == TRUE

\* The type switch: a BufferProvider or ContentsProvider is read through a
\* fresh reader over its contents, an io.Reader is read itself.
ReadsContents(x) == x.kind \cap {"BufferProvider", "ContentsProvider"} # {}

MatchResumesAtCursor(m, x) ==
    LET d == DecodeLoop(Unread(x))
    IN {[success |-> s.success, err |-> s.err, actual |-> d.entries,
         pos |-> Len(x.contents)] : s \in ScanLoop(d.entries, m.expected, 1)}

\* logMatcher.Match: the possible (success, err), with lm.actual and the
\* source's read position afterwards.
Match(m, x) ==
    IF x.kind \cap {"BufferProvider", "ContentsProvider", "Reader"} = {}
    THEN {[success |-> FALSE, err |-> "usage", actual |-> m.actual, pos |-> x.pos]}
    ELSE LET d == DecodeLoop(IF ReadsContents(x) THEN x.contents ELSE Unread(x))
         IN IF d.err # "nil"
            THEN {[success |-> FALSE, err |-> d.err, actual |-> d.entries, pos |-> p]
                  : p \in IF ReadsContents(x) THEN {x.pos}
                          ELSE (x.pos + d.read)..Len(x.contents)}
            ELSE {[success |-> s.success, err |-> s.err, actual |-> d.entries,
                   pos |-> IF ReadsContents(x) THEN x.pos ELSE Len(x.contents)]
                  : s \in ScanLoop(d.entries, m.expected, 1)}

\* ---------------------------------------------------------- Match, glager.go
RECURSIVE ScanLoopGlager(_, _, _)
ScanLoopGlager(actualEntries, expected, k) ==
    IF k > Len(expected) THEN TRUE
    ELSE LET r == LogEntries_indexOf(actualEntries, expected[k])
         IN IF ~r.found THEN FALSE
            ELSE ScanLoopGlager(SubSeq(actualEntries, r.i + 1, Len(actualEntries)),
                                expected, k + 1)

\* glager.go's logMatcher.Match accepts an io.Reader only.
MatchGlager(m, x) ==
    IF "Reader" \notin x.kind
    THEN {[success |-> FALSE, err |-> "usage", actual |-> m.actual, pos |-> x.pos]}
    ELSE LET d == DecodeLoop(Unread(x))
         IN IF d.err # "nil"
            THEN {[success |-> FALSE, err |-> d.err, actual |-> d.entries, pos |-> p]
                  : p \in (x.pos + d.read)..Len(x.contents)}
            ELSE {[success |-> ScanLoopGlager(d.entries, m.expected, 1), err |-> "nil",
                   actual |-> d.entries, pos |-> Len(x.contents)]}

\* ------------------------------------------------------------ input pools
\* Kinds of actual value: lagertest.TestSink and glager.TestLogger provide a
\* buffer, gbytes.Buffer provides its contents and is a reader, bufio.Reader
\* is only a reader, and any other value is none of them.
Kinds ==
    {{}, {"BufferProvider"}, {"ContentsProvider"}, {"ContentsProvider", "Reader"},
     {"Reader"}}

Str(s) == "\"" \o s \o "\""

InfoStarting ==
    WireRecord("1.000000001", "logger", "logger.action", INFO,
               [k \in {"event", "n"} |-> IF k = "n" THEN "1" ELSE Str("starting")])
ErrorBoom ==
    WireRecord("2.000000001", "logger", "logger.action", ERROR,
               [k \in {"event", "error"} |->
                   IF k = "error" THEN Str("boom") ELSE Str("failed")])
ErrorPlain ==
    WireRecord("3.000000001", "logger", "logger.action", ERROR,
               [k \in {"event"} |-> Str("failed")])
FatalBoom ==
    WireRecord("4.000000001", "logger", "logger.action", FATAL,
               [k \in {"event", "error"} |->
                   IF k = "error" THEN Str("boom") ELSE Str("failed")])

Items == {InfoStarting, Malformed}
LoggedRecords == {InfoStarting, ErrorBoom, ErrorPlain, FatalBoom}

Call(ctor, e, options) == [ctor |-> ctor, err |-> e, options |-> options]

\* Builder calls both files compile: string data only.
Calls ==
    {Call("Info", NilError, <<>>),
     Call("Error", NewError("boom"), <<>>),
     Call("Error", NilError, <<Source("logger")>>)}

\* Builder calls for part_002, whose Data takes any value.
ScanCalls ==
    {Call("Info", NilError, <<Data(<<GoString("n"), GoInt(1)>>)>>),
     Call("Info", NilError, <<Data(<<GoString("n"), GoString("1")>>)>>),
     Call("Error", NewError("boom"), <<Message("logger.action")>>),
     Call("Error", NilError, <<Source("logger"), Data(<<GoString("event"), GoString("failed")>>)>>),
     Call("Fatal", NilError, <<Data(<<GoString("event"), GoString("failed")>>)>>),
     Call("Error", NilError, <<Data(<<GoString("event"), GoChan, GoString("missing")>>)>>)}

SeqsUpTo(S, n) == UNION {[1..k -> S] : k \in 0..n}

\* The builder call c as the file impl runs it.
Build(impl, c) ==
    IF impl = "glager.go"
    THEN CASE c.ctor = "Info" -> Info(c.options)
           [] c.ctor = "Debug" -> Debug(c.options)
           [] c.ctor = "Error" -> ErrorGlager(c.err, c.options)
           [] OTHER -> FatalGlager(c.options)
    ELSE CASE c.ctor = "Info" -> Info(c.options)
           [] c.ctor = "Debug" -> Debug(c.options)
           [] c.ctor = "Error" -> Error(c.err, c.options)
           [] OTHER -> Fatal(c.err, c.options)

\* ----------------------------------------------------------------- actions
NewMatcher(impl) == [impl |-> impl, expected |-> <<>>, actual |-> <<>>]

\* ContainSequence(expectedSequence...): the arguments are built first; a
\* panic in a builder leaves no new matcher.
ContainSequence(impl, pool, n) ==
    \E cs \in SeqsUpTo(pool, n) :
        LET bs == [i \in 1..Len(cs) |-> Build(impl, cs[i])]
            panics == \E i \in 1..Len(cs) : bs[i].panic
        IN /\ built' = [impl |-> impl, calls |-> cs, panic |-> panics]
           /\ IF panics
              THEN UNCHANGED <<lm, success, err, matched, prev>>
              ELSE /\ lm' = [impl |-> impl,
                             expected |-> [i \in 1..Len(cs) |-> bs[i].entry],
                             actual |-> <<>>]
                   /\ success' = FALSE
                   /\ err' = "nil"
                   /\ matched' = FALSE
                   /\ prev' = "none"
           /\ UNCHANGED actual

ContainSequence002 == ContainSequence("part_002", Calls, MaxArgs)
ContainSequenceGlager == ContainSequence("glager.go", Calls, MaxArgs)
ContainSequenceScan == ContainSequence("part_002", ScanCalls, MaxExpected)

\* A record (or garbage) is appended to the source by its writer.
Write ==
    /\ Len(actual.contents) < MaxContents
    /\ \E w \in Items : actual' = [actual EXCEPT !.contents = Append(@, w)]
    /\ matched' = FALSE
    /\ prev' = "none"
    /\ UNCHANGED <<built, lm, success, err>>

DoMatch(outcomes) ==
    /\ \E o \in outcomes :
        /\ success' = o.success
        /\ err' = o.err
        /\ lm' = [lm EXCEPT !.actual = o.actual]
        /\ actual' = [actual EXCEPT !.pos = o.pos]
    /\ matched' = TRUE
    /\ prev' = IF ~matched THEN "none" ELSE IF success THEN "true" ELSE "false"
    /\ UNCHANGED built

Match002 == lm.impl = "part_002" /\ DoMatch(Match(lm, actual))
MatchGlagerGo == lm.impl = "glager.go" /\ DoMatch(MatchGlager(lm, actual))

InitMatcher(kinds, contents) ==
    /\ actual \in [kind : kinds, contents : contents, pos : {0}]
    /\ \E impl \in {"part_002", "glager.go"} :
        /\ lm = NewMatcher(impl)
        /\ built = [impl |-> impl, calls |-> <<>>, panic |-> FALSE]
    /\ success = FALSE
    /\ err = "nil"
    /\ matched = FALSE
    /\ prev = "none"

\* ================================================================== logger
\* lager.Data as the logger handles it: keys to values (strings here).
NoLogData == [k \in {} |-> ""]

RECURSIVE Itoa(_)
\* fmt.Sprintf("%d", n)
Itoa(n) == IF n < 10 THEN Digits[n + 1] ELSE Itoa(n \div 10) \o Digits[(n % 10) + 1]

\* A Go slice: backing array (0 for none), length and capacity.
NilSlice == [arr |-> 0, len |-> 0, cap |-> 0]

SinksOf(l) == [i \in 1..l.sinks.len |-> arrays[l.sinks.arr][i]]

\* The capacity append allocates when the array is full (the Go runtime
\* doubles small slices).
GrowCap(cap) == IF cap = 0 THEN 1 ELSE 2 * cap

\* append(slice, sink): written in place when the capacity allows, into a
\* larger copy otherwise. Gives the new slice header and the new heap.
GoAppend(slice, sink, heap) ==
    IF slice.len < slice.cap
    THEN [slice |-> [slice EXCEPT !.len = @ + 1],
          heap |-> [heap EXCEPT ![slice.arr][slice.len + 1] = sink]]
    ELSE LET old == IF slice.arr = 0 THEN <<>> ELSE heap[slice.arr]
             ncap == GrowCap(slice.cap)
             new == [i \in 1..ncap |->
                        IF i <= slice.len THEN old[i]
                        ELSE IF i = slice.len + 1 THEN sink ELSE 0]
         IN [slice |-> [arr |-> Len(heap) + 1, len |-> slice.len + 1, cap |-> ncap],
             heap |-> Append(heap, new)]

\* NewLogger(component); parent, how, seg and born are history: the logger
\* it was derived from, by what, with which counter value, and after how
\* many registrations.
NewLogger(component) ==
    [component |-> component, task |-> component, sinks |-> NilSlice,
     sessionID |-> "", nextSession |-> 0, data |-> NoLogData,
     parent |-> 0, how |-> "NewLogger", seg |-> 0, born |-> 0]

baseDataSessionFirst(l, givenData) ==
    LET merge[i \in 0..Len(givenData)] ==
            IF i = 0 THEN l.data ELSE givenData[i] @@ merge[i - 1]
        session == IF l.sessionID # "" THEN [k \in {"session"} |-> l.sessionID]
                   ELSE NoLogData
    IN merge[Len(givenData)] @@ session

\* l.baseData(givenData...): the logger's data, then each given map in
\* argument order, then the session key when the session identifier is set.
baseData(l, givenData) ==
    LET merge[i \in 0..Len(givenData)] ==
            IF i = 0 THEN l.data ELSE givenData[i] @@ merge[i - 1]
    IN IF l.sessionID # ""
       THEN [k \in {"session"} |-> l.sessionID] @@ merge[Len(givenData)]
       ELSE merge[Len(givenData)]

AddUint32LostUpdate(v, delta) == IF v >= 1 THEN v ELSE v + delta

\* atomic.AddUint32(&v, delta): the new value. The uint32 wraps at 2^32,
\* which no counter reaches here: a logger derives fewer than MaxLoggers
\* sessions (and 2^32 is beyond the checker's integers).
AddUint32(v, delta) == v + delta

Threads == {1, 2}
Idle == [pc |-> "idle", l |-> 0, sid |-> 0]
AllIdle == \A t \in Threads : threads[t].pc = "idle"

LogDataPool == {[k \in {"session", "error"} |-> "mine"]}
GivenData == SeqsUpTo(LogDataPool, 1)
Tasks == {"task"}
Actions == {"action"}
Errors == {NilError, NewError("boom")}
StackTrace == "goroutine 1 [running]"
Now == "1.000000001"
MinLogLevels == {DEBUG, ERROR}

\* Argument lists of a logging call whose maps collide with each other, with
\* the logger's data and with the injected keys.
Mine == [k \in {"session", "error"} |-> "mine"]
Yours == [k \in {"error", "trace"} |-> "yours"]
GivenLists == {<<>>, <<Mine>>, <<Mine, Yours>>, <<Yours, Mine>>}

\* NewWriterSink(writer, minLogLevel): a sink that has written nothing.
NewWriterSink(minLogLevel) == [minLogLevel |-> minLogLevel, written |-> <<>>]

\* sink.Log(log): the sink writes the records at or above its minimum level.
WriterSinkLog(sink, rec) ==
    IF rec.log.log_level < sink.minLogLevel THEN sink
    ELSE [sink EXCEPT !.written = Append(@, rec)]

\* l.RegisterSink(sink), for a new sink with one of the minimum levels.
\* Registration is serialized with the other calls, as its callers must.
RegisterSink(l, maxSinks, minLogLevels) ==
    /\ AllIdle
    /\ Len(sinkRecords) < maxSinks
    /\ LET sink == Len(sinkRecords) + 1
           r == GoAppend(loggers[l].sinks, sink, arrays)
       IN /\ loggers' = [loggers EXCEPT ![l].sinks = r.slice]
          /\ arrays' = r.heap
          /\ sinkRecords' = Append(sinkRecords, <<>>)
          /\ registrations' = Append(registrations, l)
    /\ \E minLogLevel \in minLogLevels :
          writerSinks' = Append(writerSinks, NewWriterSink(minLogLevel))
    /\ UNCHANGED <<threads, outcome>>

\* l.Session(task, data...), first step: sid := atomic.AddUint32(&l.nextSession, 1)
SessionAdd(t, l, maxLoggers) ==
    /\ threads[t].pc = "idle"
    /\ Len(loggers) + Cardinality({u \in Threads : threads[u].pc = "build"}) < maxLoggers
    /\ LET sid == AddUint32(loggers[l].nextSession, 1)
       IN /\ loggers' = [loggers EXCEPT ![l].nextSession = sid]
          /\ threads' = [threads EXCEPT ![t] = [pc |-> "build", l |-> l, sid |-> sid]]
    /\ UNCHANGED <<arrays, sinkRecords, registrations, writerSinks, outcome>>

\* l.Session(task, data...), the rest: the session identifier is formatted
\* and the derived logger is built, sharing the sinks slice.
SessionBuild(t) ==
    /\ threads[t].pc = "build"
    /\ \E task \in Tasks, data \in GivenData :
        LET l == loggers[threads[t].l]
            sid == threads[t].sid
            sessionIDstr == IF l.sessionID # ""
                            THEN l.sessionID \o "." \o Itoa(sid)
                            ELSE Itoa(sid)
        IN loggers' = Append(loggers,
               [component |-> l.component, task |-> l.task \o "." \o task,
                sinks |-> l.sinks, sessionID |-> sessionIDstr, nextSession |-> 0,
                data |-> baseData(l, data),
                parent |-> threads[t].l, how |-> "Session", seg |-> sid,
                born |-> Len(registrations)])
    /\ threads' = [threads EXCEPT ![t] = Idle]
    /\ UNCHANGED <<arrays, sinkRecords, registrations, writerSinks, outcome>>

\* l.WithData(data)
WithData(l, maxLoggers) ==
    /\ Len(loggers) + Cardinality({u \in Threads : threads[u].pc = "build"}) < maxLoggers
    /\ \E data \in LogDataPool :
        loggers' = Append(loggers,
            [component |-> loggers[l].component, task |-> loggers[l].task,
             sinks |-> loggers[l].sinks, sessionID |-> loggers[l].sessionID,
             nextSession |-> 0, data |-> baseData(loggers[l], <<data>>),
             parent |-> l, how |-> "WithData", seg |-> 0,
             born |-> Len(registrations)])
    /\ UNCHANGED <<arrays, sinkRecords, registrations, writerSinks, threads, outcome>>

\* The sinks' state after sink.Log(rec) on each of to[i..], in order.
RECURSIVE LogEach(_, _, _, _)
LogEach(sinks, to, i, rec) ==
    IF i > Len(to) THEN sinks
    ELSE LogEach([sinks EXCEPT ![to[i]] = WriterSinkLog(@, rec)], to, i + 1, rec)

\* for _, sink := range l.sinks { sink.Log(log) }; err is log.Error, and via,
\* given and call are history: the logger the call was made on, the data maps
\* it was given and the number of the call.
Dispatch(l, log, e, given) ==
    LET to == SinksOf(loggers[l])
        rec == [log |-> log, err |-> e, via |-> l, given |-> given,
                call |-> outcome.logs + 1]
    IN /\ sinkRecords' =
            [s \in 1..Len(sinkRecords) |->
               LET n == Cardinality({i \in 1..Len(to) : to[i] = s})
               IN IF n = 0 THEN sinkRecords[s]
                  ELSE sinkRecords[s] \o [i \in 1..n |-> rec]]
       /\ writerSinks' = LogEach(writerSinks, to, 1, rec)

LogCall(l, level, action, e, logData, given, returns) ==
    /\ outcome.logs < MaxLogs
    /\ Dispatch(l, LogFormat(Now, loggers[l].component,
                             loggers[l].task \o "." \o action, level, logData),
                e, given)
    /\ outcome' = [logs |-> outcome.logs + 1, via |-> l, returned |-> returns,
                   level |-> level]
    /\ UNCHANGED <<loggers, arrays, registrations, threads>>

\* l.Debug(action, data...)
LoggerDebug(l, givens) ==
    \E action \in Actions, data \in givens :
        LogCall(l, DEBUG, action, NilError, baseData(loggers[l], data), data, TRUE)

\* l.Info(action, data...)
LoggerInfo(l, givens) ==
    \E action \in Actions, data \in givens :
        LogCall(l, INFO, action, NilError, baseData(loggers[l], data), data, TRUE)

WithErrorKeepsCallerKey(logData, e) ==
    IF ~e.nil THEN logData @@ [k \in {"error"} |-> e.msg] ELSE logData

\* if err != nil { logData["error"] = err.Error() }
WithError(logData, e) ==
    IF ~e.nil THEN [k \in {"error"} |-> e.msg] @@ logData ELSE logData

\* l.Error(action, err, data...)
LoggerError(l, givens) ==
    \E action \in Actions, e \in Errors, data \in givens :
        LogCall(l, ERROR, action, e, WithError(baseData(loggers[l], data), e), data, TRUE)

\* l.Fatal(action, err, data...): panics after the dispatch.
LoggerFatal(l, givens) ==
    \E action \in Actions, e \in Errors, data \in givens :
        LogCall(l, FATAL, action, e,
                [k \in {"trace"} |-> StackTrace]
                    @@ WithError(baseData(loggers[l], data), e),
                data, FALSE)

InitLogger ==
    /\ loggers = <<NewLogger("logger")>>
    /\ arrays = <<>>
    /\ sinkRecords = <<>>
    /\ registrations = <<>>
    /\ writerSinks = <<>>
    /\ threads = [t \in Threads |-> Idle]
    /\ outcome = [logs |-> 0, via |-> 0, returned |-> TRUE, level |-> DEBUG]

Logging(l, givens) ==
    \/ LoggerDebug(l, givens)
    \/ LoggerInfo(l, givens)
    \/ LoggerError(l, givens)
    \/ LoggerFatal(l, givens)

\* ========================================================= specifications
\* The matcher over a source that is written to and matched repeatedly.
Init == InitMatcher(Kinds, {<<>>}) /\ InitLogger

Next ==
    /\ \/ ContainSequence002
       \/ ContainSequenceGlager
       \/ Write
       \/ Match002
       \/ MatchGlagerGo
    /\ UNCHANGED loggerVars

Spec == Init /\ [][Next]_vars

\* A gbytes.Buffer a logger has written well-formed records to, matched by
\* part_002 against richer expectations.
MaxLogged == 3

InitScan ==
    /\ actual \in [kind : {{"ContentsProvider", "Reader"}},
                   contents : SeqsUpTo(LoggedRecords, MaxLogged), pos : {0}]
    /\ lm = NewMatcher("part_002")
    /\ built = [impl |-> "part_002", calls |-> <<>>, panic |-> FALSE]
    /\ success = FALSE
    /\ err = "nil"
    /\ matched = FALSE
    /\ prev = "none"
    /\ InitLogger

\* One Expect(...).To(ContainSequence(...)): the matcher is made once and
\* Match is applied to it.
NextScan ==
    /\ \/ (lm.expected = <<>> /\ ~matched /\ ContainSequenceScan)
       \/ Match002
    /\ UNCHANGED loggerVars

SpecScan == InitScan /\ [][NextScan]_vars

InitLog == InitMatcher({{}}, {<<>>}) /\ lm.impl = "part_002" /\ InitLogger

\* Loggers derived by two goroutines calling Session and WithData.
NextSession ==
    /\ \E l \in 1..Len(loggers) :
        \/ \E t \in Threads : SessionAdd(t, l, MaxLoggers)
        \/ \E t \in Threads : SessionBuild(t)
        \/ WithData(l, MaxLoggers)
    /\ UNCHANGED matcherVars

SpecSession == InitLog /\ [][NextSession]_vars

\* One goroutine registers sinks, derives loggers and logs.
NextLogger ==
    /\ \E l \in 1..Len(loggers) :
        \/ RegisterSink(l, MaxSinks, {DEBUG})
        \/ SessionAdd(1, l, MaxDerived)
        \/ SessionBuild(1)
        \/ WithData(l, MaxDerived)
        \/ Logging(l, GivenData)
    /\ UNCHANGED matcherVars

SpecLogger == InitLog /\ [][NextLogger]_vars

\* A parent and one logger derived from it by one goroutine, with enough
\* sinks registered for their shared slice to have spare capacity.
NextSinks ==
    /\ \E l \in 1..Len(loggers) :
        \/ RegisterSink(l, MaxShared, MinLogLevels)
        \/ SessionAdd(1, l, MaxFamily)
        \/ SessionBuild(1)
        \/ WithData(l, MaxFamily)
        \/ Logging(l, GivenData)
    /\ UNCHANGED matcherVars

SpecSinks == InitLog /\ [][NextSinks]_vars

\* The builder alone: one expectation is built from a constructor, an error
\* and up to MaxOptions options.
MaxOptions == 2

\* Argument lists of Data: even, odd, and ones that name the "error" key.
DataArgs == {<<"k">>, <<"k", "v">>, <<"error", "mine">>, <<"k", "v", "error">>}

Options(impl) ==
    {Message("logger.action"), Action("logger.other"), Source("logger")}
    \cup (IF impl = "glager.go"
          THEN {DataGlager(kv) : kv \in DataArgs}
          ELSE {Data([i \in 1..Len(kv) |-> GoString(kv[i])]) : kv \in DataArgs}
               \cup {Data(<<GoString("k"), GoInt(1)>>)})

BuildCalls(impl) ==
    {Call(ctor, e, options) :
        ctor \in {"Info", "Debug", "Error", "Fatal"}, e \in {NilError, NewError("boom")},
        options \in SeqsUpTo(Options(impl), MaxOptions)}

Build002 == ContainSequence("part_002", BuildCalls("part_002"), 1)
BuildGlager == ContainSequence("glager.go", BuildCalls("glager.go"), 1)

\* One evaluation of ContainSequence(...) with one argument.
NextBuild ==
    /\ built.calls = <<>>
    /\ Build002 \/ BuildGlager
    /\ UNCHANGED loggerVars

InitBuild == InitMatcher({{}}, {<<>>}) /\ InitLogger

SpecBuild == InitBuild /\ [][NextBuild]_vars

\* A logger with one sink, the loggers derived from it, and logging calls
\* with several data maps.
InitMerge ==
    /\ InitMatcher({{}}, {<<>>}) /\ lm.impl = "part_002"
    /\ LET r == GoAppend(NilSlice, 1, <<>>)
       IN /\ loggers = <<[NewLogger("logger") EXCEPT !.sinks = r.slice]>>
          /\ arrays = r.heap
    /\ sinkRecords = <<<<>>>>
    /\ registrations = <<1>>
    /\ writerSinks = <<NewWriterSink(DEBUG)>>
    /\ threads = [t \in Threads |-> Idle]
    /\ outcome = [logs |-> 0, via |-> 0, returned |-> TRUE, level |-> DEBUG]

NextMerge ==
    /\ \E l \in 1..Len(loggers) :
        \/ SessionAdd(1, l, MaxDerived)
        \/ SessionBuild(1)
        \/ WithData(l, MaxDerived)
        \/ Logging(l, GivenLists)
    /\ UNCHANGED matcherVars

SpecMerge == InitMerge /\ [][NextMerge]_vars

\* ================================================================= claims
\* What the specification calls containment, stated on its own: every
\* constraint the expectation sets is met by the record.
Canonical(v) == Marshal(v).json
Serializable(v) == Marshal(v).err = "nil"

Satisfies(a, e) ==
    /\ e.source = "" \/ e.source = a.source
    /\ e.message = "" \/ e.message = a.message
    /\ a.log_level = e.log_level
    /\ \A k \in DOMAIN e.data :
          /\ k \in DOMAIN a.data
          /\ Serializable(e.data[k])
          /\ Canonical(a.data[k]) = Canonical(e.data[k])

\* E embeds in A: strictly increasing indices, one record per expectation.
Embeds(A, E) ==
    \E f \in [1..Len(E) -> 1..Len(A)] :
        /\ \A i, j \in 1..Len(E) : i < j => f[i] < f[j]
        /\ \A j \in 1..Len(E) : Satisfies(A[f[j]], E[j])

AllSerializable(E) ==
    \A j \in 1..Len(E) : \A k \in DOMAIN E[j].data : Serializable(E[j].data[k])

Decoded002 == matched /\ lm.impl = "part_002" /\ err \notin {"usage", "decode"}

\* C1 (as claimed): over a well-formed decoded sequence, Match returns
\* (true, nil) exactly when the expectations embed in order into the actual
\* records, and (false, nil) otherwise.
C1_MatchIffEmbedding_Original ==
    Decoded002 =>
        /\ (success /\ err = "nil") <=> Embeds(lm.actual, lm.expected)
        /\ ~Embeds(lm.actual, lm.expected) => (~success /\ err = "nil")

\* C1 (amended): Match returns (true, nil) exactly when the expectations
\* embed in order into the actual records; otherwise success is false, and
\* the error is nil whenever every expected data value can be serialized.
C1_MatchIffEmbedding ==
    Decoded002 =>
        /\ (success /\ err = "nil") <=> Embeds(lm.actual, lm.expected)
        /\ ~Embeds(lm.actual, lm.expected) => ~success
        /\ AllSerializable(lm.expected) => err = "nil"

\* The greedy scan had a choice: the first expectation is satisfied by two
\* records and the match succeeds on two expectations.
C1_Witness ==
    /\ Decoded002 /\ success
    /\ Len(lm.expected) = 2
    /\ Cardinality({i \in 1..Len(lm.actual) : Satisfies(lm.actual[i], lm.expected[1])}) >= 2

WithoutKeys(a, K) == [a EXCEPT !.data = [k \in DOMAIN a.data \ K |-> a.data[k]]]

C3_BufferIdempotent ==
    /\ [](( /\ lm.impl = "part_002" /\ ReadsContents(actual)
            /\ matched /\ prev # "none")
          => (success <=> prev = "true"))
    /\ [][matched' => actual'.contents = actual.contents]_vars

C3_Witness ==
    /\ lm.impl = "part_002" /\ ReadsContents(actual)
    /\ matched /\ prev = "true" /\ success
    /\ Len(lm.expected) > 0

IsStream(x) == x.kind = {"Reader"}

\* C4 (as claimed): on a forward-only stream a Match that decodes reads to
\* end of input, and the Match after a successful one returns (false, nil).
C4_StreamSecondCallFails_Original ==
    (lm.impl = "part_002" /\ IsStream(actual) /\ matched) =>
        /\ err # "decode" => actual.pos = Len(actual.contents)
        /\ prev = "true" => (~success /\ err = "nil")

\* C4 (amended): the same, for a non-empty expectation list.
C4_StreamSecondCallFails ==
    (lm.impl = "part_002" /\ IsStream(actual) /\ matched) =>
        /\ err # "decode" => actual.pos = Len(actual.contents)
        /\ (prev = "true" /\ Len(lm.expected) > 0) => (~success /\ err = "nil")

C4_Witness ==
    /\ lm.impl = "part_002" /\ IsStream(actual) /\ matched
    /\ prev = "true" /\ ~success /\ Len(lm.expected) > 0
    /\ Len(actual.contents) > 0

\* What a Match by the file impl reads from x.
Readable(impl, x) ==
    IF impl = "part_002" /\ ReadsContents(x) THEN x.contents ELSE Unread(x)

MatchStep == matched' /\ built' = built /\ lm'.expected = lm.expected

\* C5: a Match over a source holding a malformed record returns a non-nil
\* error and success false, whatever precedes the malformed record.
C5_MalformedIsError ==
    [][(MatchStep /\ \E i \in 1..Len(Readable(lm.impl, actual)) :
                        ~Readable(lm.impl, actual)[i].ok)
        => (~success' /\ err' # "nil")]_vars

\* The expectation is satisfied by the records decoded before the malformed
\* one, and the Match is an error.
C5_Witness ==
    /\ matched /\ err = "decode" /\ ~success
    /\ Len(lm.expected) > 0 /\ Embeds(lm.actual, lm.expected)

\* C6 (as claimed): Match returns the usage error exactly when the actual
\* value is no BufferProvider, no ContentsProvider and no io.Reader.
C6_UsageErrorIffUnsupported ==
    matched =>
        (err = "usage" <=>
            actual.kind \cap {"BufferProvider", "ContentsProvider", "Reader"} = {})

\* C7 (as claimed): Error(nil, options...) does not panic and builds an
\* ERROR expectation without an "error" data key.
C7_ErrorNilBuilds ==
    \A i \in 1..Len(built.calls) :
        (built.calls[i].ctor = "Error" /\ built.calls[i].err.nil) =>
            /\ ~built.panic
            /\ lm.expected[i].log_level = ERROR
            /\ "error" \notin DOMAIN lm.expected[i].data

\* ---------------------------------------------------------- logger claims
SessionChildren(p) ==
    {c \in 1..Len(loggers) : loggers[c].parent = p /\ loggers[c].how = "Session"}

\* The last segment of c's session identifier, as Session formats it.
EndsWithSegment(c, n) ==
    LET p == loggers[loggers[c].parent]
    IN loggers[c].sessionID =
         IF p.sessionID # "" THEN p.sessionID \o "." \o Itoa(n) ELSE Itoa(n)

RECURSIVE CallerData(_, _)
CallerData(data, given) ==
    IF given = <<>> THEN data
    ELSE CallerData([k \in DOMAIN data \cup DOMAIN Head(given) |->
                        IF k \in DOMAIN Head(given) THEN Head(given)[k] ELSE data[k]],
                    Tail(given))

\* C9: a record logged through a logger with a session identifier carries
\* that identifier as data["session"], whatever "session" key the logger's
\* data or the call's data hold; a logger without one adds no session key.
C9_SessionKeyIsOwn ==
    \A s \in 1..Len(sinkRecords) : \A i \in 1..Len(sinkRecords[s]) :
        LET rec == sinkRecords[s][i]
            l == loggers[rec.via]
            plain == CallerData(l.data, rec.given)
        IN IF l.sessionID # ""
           THEN /\ "session" \in DOMAIN rec.log.data
                /\ rec.log.data["session"] = l.sessionID
           ELSE /\ "session" \in DOMAIN rec.log.data <=> "session" \in DOMAIN plain
                /\ "session" \in DOMAIN plain
                      => rec.log.data["session"] = plain["session"]

\* A record of a session whose own data and whose call both carried another
\* "session" value.
C9_Witness ==
    \E s \in 1..Len(sinkRecords) : \E i \in 1..Len(sinkRecords[s]) :
        LET rec == sinkRecords[s][i]
            l == loggers[rec.via]
        IN /\ l.sessionID # ""
           /\ "session" \in DOMAIN l.data /\ l.data["session"] # l.sessionID
           /\ \E g \in 1..Len(rec.given) :
                 "session" \in DOMAIN rec.given[g]
                 /\ rec.given[g]["session"] # l.sessionID

\* The sinks registered on l by the time t sinks were registered in all:
\* those its parent had when l was derived, and those RegisterSink(l) added.
RECURSIVE RegisteredBy(_, _)
RegisteredBy(l, t) ==
    (IF loggers[l].parent = 0 THEN {}
     ELSE RegisteredBy(loggers[l].parent, loggers[l].born))
    \cup {s \in 1..t : registrations[s] = l}

\* The sinks registered on c's parent after c was derived.
RegisteredLate(c) ==
    {s \in (loggers[c].born + 1)..Len(registrations) :
        registrations[s] = loggers[c].parent}

ReceivedVia(s, c) == \E i \in 1..Len(sinkRecords[s]) : sinkRecords[s][i].via = c

\* C10 (as claimed): a record logged through a derived logger reaches every
\* sink registered on its parent before the derivation, and no sink
\* registered on the parent after it.
C10_SinksSharedAtDerivation ==
    \A c \in 1..Len(loggers) : loggers[c].parent # 0 =>
        /\ (outcome.logs > 0 /\ outcome.via = c) =>
              \A s \in RegisteredBy(loggers[c].parent, loggers[c].born) :
                  ReceivedVia(s, c)
        /\ \A s \in RegisteredLate(c) : ~ReceivedVia(s, c)

\* A logging call on logger l is the step taken.
LoggingStep(l) == outcome'.logs = outcome.logs + 1 /\ outcome'.via = l

\* The sinks registered on l so far, its own and those it was derived with.
Registered(l) == RegisteredBy(l, Len(registrations))

\* C11 (as claimed): a logging call on a logger appends exactly one record,
\* its own, to every sink registered on that logger whose minimum level is at
\* most the call's level, and nothing to any other sink; in each sink the
\* records are in the order of the calls.
C11_OneRecordPerEligibleSink ==
    /\ [][\A l \in 1..Len(loggers) : LoggingStep(l) =>
            \A s \in 1..Len(writerSinks) :
                LET was == writerSinks[s].written
                    is == writerSinks'[s].written
                IN IF s \in Registered(l)
                      /\ writerSinks[s].minLogLevel <= outcome'.level
                   THEN /\ Len(is) = Len(was) + 1
                        /\ SubSeq(is, 1, Len(was)) = was
                        /\ is[Len(is)].call = outcome'.logs
                        /\ is[Len(is)].via = l
                        /\ is[Len(is)].log.log_level = outcome'.level
                   ELSE is = was]_vars
    /\ [](\A s \in 1..Len(writerSinks) :
            \A i, j \in 1..Len(writerSinks[s].written) :
                i < j => writerSinks[s].written[i].call
                            < writerSinks[s].written[j].call)

\* The record the step's call handed out is the last one sink s wrote.
WroteCall(s) ==
    LET is == writerSinks'[s].written
    IN /\ Len(is) = Len(writerSinks[s].written) + 1
       /\ is[Len(is)].call = outcome'.logs

\* C12 (as claimed): a Fatal call hands its record, with data["trace"] and
\* with an injected data["error"] exactly when err is not nil, to every sink
\* registered on the logger and does not return; an Error call returns.
C12_FatalDeliversThenAborts ==
    [][\A l \in 1..Len(loggers) : LoggingStep(l) =>
         /\ outcome'.level = FATAL =>
              /\ ~outcome'.returned
              /\ \A s \in Registered(l) :
                   /\ WroteCall(s)
                   /\ LET rec == writerSinks'[s].written[Len(writerSinks'[s].written)]
                           plain == CallerData(loggers[l].data, rec.given)
                       IN /\ rec.log.log_level = FATAL
                          /\ "trace" \in DOMAIN rec.log.data
                          /\ rec.log.data["trace"] = StackTrace
                          /\ IF rec.err.nil
                             THEN /\ "error" \in DOMAIN rec.log.data
                                        <=> "error" \in DOMAIN plain
                                  /\ "error" \in DOMAIN plain
                                        => rec.log.data["error"] = plain["error"]
                             ELSE /\ "error" \in DOMAIN rec.log.data
                                  /\ rec.log.data["error"] = rec.err.msg
         /\ outcome'.level = ERROR => outcome'.returned]_vars

\* m with the entries of n written over it.
Over(m, n) ==
    [k \in DOMAIN m \cup DOMAIN n |-> IF k \in DOMAIN n THEN n[k] ELSE m[k]]

\* The merge as the specification orders it: the logger's data, the call's
\* maps in argument order, the error and trace keys, the session key.
MergedData(l, rec) ==
    LET plain == CallerData(l.data, rec.given)
        withError == IF rec.log.log_level \in {ERROR, FATAL} /\ ~rec.err.nil
                     THEN Over(plain, [k \in {"error"} |-> rec.err.msg])
                     ELSE plain
        withTrace == IF rec.log.log_level = FATAL
                     THEN Over(withError, [k \in {"trace"} |-> StackTrace])
                     ELSE withError
    IN IF l.sessionID # ""
       THEN Over(withTrace, [k \in {"session"} |-> l.sessionID])
       ELSE withTrace

\* C13: the data of every emitted record is the logger's data, overwritten
\* by the call's maps in argument order, then by the error and trace keys,
\* then by the session key; an Error with a non-nil err emits its string as
\* data["error"] whatever the caller's data hold; and a logging call leaves
\* the loggers' data as they were.
C13_DataMergeOrder ==
    /\ [](\A s \in 1..Len(sinkRecords) : \A i \in 1..Len(sinkRecords[s]) :
            LET rec == sinkRecords[s][i]
            IN /\ rec.log.data = MergedData(loggers[rec.via], rec)
               /\ (rec.log.log_level = ERROR /\ ~rec.err.nil)
                     => rec.log.data["error"] = rec.err.msg)
    /\ [][\A l \in 1..Len(loggers) : LoggingStep(l) =>
            \A k \in 1..Len(loggers) : loggers'[k].data = loggers[k].data]_vars

\* An Error with a non-nil err on a session whose data hold an "error" key,
\* called with two maps that disagree on "error".
C13_Witness ==
    \E s \in 1..Len(sinkRecords) : \E i \in 1..Len(sinkRecords[s]) :
        LET rec == sinkRecords[s][i]
            l == loggers[rec.via]
        IN /\ rec.log.log_level = ERROR /\ ~rec.err.nil
           /\ l.sessionID # "" /\ "error" \in DOMAIN l.data
           /\ Len(rec.given) = 2
           /\ rec.given[1]["error"] # rec.given[2]["error"]
           /\ rec.log.data["error"] \notin {rec.given[1]["error"], rec.given[2]["error"]}

\* The loggers that Session calls returned.
Sessions == {c \in 1..Len(loggers) : loggers[c].how = "Session"}

\* C14 (as claimed): no two Session derivations in a lineage yield the same
\* session identifier, in particular not one made on a logger and one made
\* on a WithData view of it.
C14_SessionIDsUnique ==
    \A c, d \in Sessions : c # d => loggers[c].sessionID # loggers[d].sessionID

\* The sinks logger lg dispatches to, over the heap of backing arrays.
DispatchList(lg, heap) == [i \in 1..lg.sinks.len |-> heap[lg.sinks.arr][i]]

\* RegisterSink on logger l is the step taken.
RegisterStep(l) ==
    /\ Len(registrations') = Len(registrations) + 1
    /\ registrations'[Len(registrations')] = l

\* C15 (as claimed): RegisterSink on a logger appends the sink to that
\* logger's list and leaves the list of sinks every other logger dispatches
\* to as it was.
C15_RegisterSinkFrame ==
    [][\A l \in 1..Len(loggers) : RegisterStep(l) =>
         /\ DispatchList(loggers'[l], arrays')
               = Append(DispatchList(loggers[l], arrays), Len(registrations'))
         /\ \A k \in 1..Len(loggers) \ {l} :
               DispatchList(loggers'[k], arrays') = DispatchList(loggers[k], arrays)]_vars

\* A gbytes.Buffer: it gives its contents and is an io.Reader as well.
IsBuffer(x) == x.kind = {"ContentsProvider", "Reader"}

\* C16 (as claimed): a Match on a source that has both the contents accessor
\* and the read interface reads all its contents and leaves its read
\* position where it was, so that the next Match gives the same result.
C16_BufferReadThroughContents ==
    /\ []((IsBuffer(actual) /\ matched) =>
            /\ err # "usage"
            /\ err # "decode" => Len(lm.actual) = Len(actual.contents)
            /\ prev # "none" => (success <=> prev = "true"))
    /\ [][(IsBuffer(actual) /\ matched') => actual'.pos = actual.pos]_vars

\* ---------------------------------------------------------- builder claims
LevelOf(ctor) ==
    CASE ctor = "Debug" -> DEBUG [] ctor = "Info" -> INFO
      [] ctor = "Error" -> ERROR [] OTHER -> FATAL

\* Whether the file's constructor adds an error constraint to call c.
Injects(impl, c) ==
    /\ ~c.err.nil
    /\ c.ctor = "Error" \/ (c.ctor = "Fatal" /\ impl = "part_002")

\* The options of call c with the error constraint placed after them.
AllOptions(impl, c) ==
    IF Injects(impl, c)
    THEN Append(c.options, Data(<<GoString("error"), GoString(c.err.msg)>>))
    ELSE c.options

\* The string the last option of the kind sets, "" when there is none.
LastString(opts, kind) ==
    LET W == {i \in 1..Len(opts) : opts[i].opt = kind}
    IN IF W = {} THEN ""
       ELSE opts[CHOOSE i \in W : \A j \in W : j <= i].str

\* The places <<option, position>> that write data key k.
KeyWrites(opts, k) ==
    UNION {{<<i, j>> : j \in {n \in 1..Len(opts[i].kv) :
                                 /\ opts[i].opt = "Data"
                                 /\ n % 2 = 1 /\ n < Len(opts[i].kv)
                                 /\ opts[i].kv[n] = GoString(k)}}
           : i \in 1..Len(opts)}

Later(v, w) == v[1] < w[1] \/ (v[1] = w[1] /\ v[2] <= w[2])

DataKeys == {"k", "error"}

\* Last write wins, per field and per data key.
LastWriteWins(opts, level) ==
    LogFormat("", LastString(opts, "Source"), LastString(opts, "Message"), level,
        [k \in {d \in DataKeys : KeyWrites(opts, d) # {}} |->
            LET w == CHOOSE w \in KeyWrites(opts, k) :
                        \A v \in KeyWrites(opts, k) : Later(v, w)
            IN opts[w[1]].kv[w[2] + 1]])

\* Every option applied twice in a row.
Doubled(opts) == [i \in 1..(2 * Len(opts)) |-> opts[(i + 1) \div 2]]

\* The calls the claim is about: Error(nil, ...) of glager.go builds nothing
\* (see C7).
Builds(impl, c) == ~(impl = "glager.go" /\ c.ctor = "Error" /\ c.err.nil)

Accepted(impl, x) ==
    IF impl = "glager.go" THEN "Reader" \in x.kind
    ELSE x.kind \cap {"BufferProvider", "ContentsProvider", "Reader"} # {}

\* C18: a Match with an empty expectation list on an accepted source whose
\* records all decode returns (true, nil), also on an empty buffer and on an
\* exhausted stream; a Match with a non-empty list on a source with no
\* records to read returns false.
C18_EmptyExpectationSucceeds ==
    [][(MatchStep /\ Accepted(lm.impl, actual)) =>
        LET reads == Readable(lm.impl, actual)
        IN /\ (lm.expected = <<>> /\ \A i \in 1..Len(reads) : reads[i].ok)
                 => (success' /\ err' = "nil")
           /\ (lm.expected # <<>> /\ reads = <<>>)
                 => (~success' /\ err' = "nil")]_vars

\* The second Match of an empty expectation list on a stream the first one
\* exhausted succeeds again.
C18_Witness ==
    /\ matched /\ IsStream(actual) /\ lm.expected = <<>>
    /\ Len(actual.contents) > 0 /\ actual.pos = Len(actual.contents)
    /\ prev = "true" /\ success /\ err = "nil"
====
